---- MODULE Spec2Model ----
(***************************************************************************)
(* Model of alterdata_transaction_api: ImportService.import_csv            *)
(* (services.py) driven by the upload endpoint (api/transactions.py),      *)
(* TransactionService.create_transaction, and the report endpoints         *)
(* (api/reports.py) with ReportService, over the repositories              *)
(* (repositories.py), the row schema (schemas.py) and the table            *)
(* constraints (models.py).                                                *)
(*                                                                         *)
(* Every request owns one storage session.  A session holds the rows it    *)
(* has flushed but not committed; a failed flush rolls the database        *)
(* transaction back and leaves the session unusable until rollback().      *)
(***************************************************************************)
EXTENDS Integers, Sequences, FiniteSets, TLC

VARIABLES db, sess, pc, req, st, out, nimports, import_batch_repo, call

vars == <<db, sess, pc, req, st, out, nimports, import_batch_repo, call>>

(***************************************************************************)
(* Bounds                                                                  *)
(***************************************************************************)
\* longest file (data rows) of the sequential specification
MaxRows == 2
\* number of import calls of the sequential specification
MaxImports == 2
\* longest file (data rows) of the concurrent specification
MaxConcRows == 1
\* most digits after the decimal point of an amount handed to row validation
MaxFracDigits == 3
\* latest start_date / end_date of a report request
MaxDate == 3

\* largest page_size requested (the endpoint admits 1..100)
MaxPageSize == 2

\* largest amount converted, in hundredths
MaxAmountCents == 30

(***************************************************************************)
(* Rows of a CSV file                                                      *)
(***************************************************************************)
\* number of columns of the header (the seven required names)
HeaderFields == 7

\* DECIMAL(10, 2): at most 8 digits before the decimal point
AmountIntLimit == 100000000

Currencies == {"PLN", "EUR", "USD"}

\* An amount as written: integer part, fractional digits read as a number,
\* and the number of fractional digits ("10.005" is [ip |-> 10, fr |-> 5, nd |-> 3]).
Amt(ip, fr, nd) == [ip |-> ip, fr |-> fr, nd |-> nd]

\* A data row as DictReader yields it.  tid/cid/pid 0 stands for text that
\* is not a UUID; nf is the number of fields on the line.
Row(tid, ts, amt, cur, cid, pid, qty, nf) ==
    [tid |-> tid, ts |-> ts, amt |-> amt, cur |-> cur, cid |-> cid,
     pid |-> pid, qty |-> qty, nf |-> nf]

RowA == Row(1, 1, Amt(10, 0, 2), "PLN", 1, 1, 1, 7)
RowB == Row(1, 2, Amt(20, 0, 2), "EUR", 2, 2, 2, 7)
RowC == Row(2, 2, Amt(0, 1, 2), "USD", 1, 2, 1, 7)
RowZeroAmount == Row(2, 1, Amt(0, 0, 2), "PLN", 2, 2, 1, 7)
RowShort == Row(2, 1, Amt(10, 0, 2), "PLN", 1, 1, 1, 6)
RowLong == Row(2, 1, Amt(10, 0, 2), "PLN", 1, 1, 1, 8)
RowOverflow == Row(2, 1, Amt(AmountIntLimit, 0, 2), "PLN", 1, 1, 1, 7)

RowZeroQuantity == Row(2, 1, Amt(10, 0, 2), "PLN", 2, 2, 0, 7)

RowPool ==
    {RowA, RowB, RowC, RowZeroAmount, RowShort, RowLong, RowOverflow}

\* rows below a header that lacks a required name
IgnoredRowPool == {RowA, RowZeroAmount}

ConcRowPool == {RowA, RowB, RowC}

SeqsUpTo(S, n) == UNION {[1..k -> S] : k \in 0..n}

\* hdr: "ok" (all seven names present), "missing" (a required name absent),
\* "empty" (no header line at all), "undecodable" (bytes that are not UTF-8)
File(hdr, rows) == [hdr |-> hdr, rows |-> rows]

Files ==
    {File("ok", r) : r \in SeqsUpTo(RowPool, MaxRows)}
    \cup {File("missing", r) : r \in SeqsUpTo(IgnoredRowPool, MaxRows)}
    \cup {File("empty", <<>>), File("undecodable", <<>>)}

ConcFiles == {File("ok", r) : r \in SeqsUpTo(ConcRowPool, MaxConcRows)}

\* TransactionCreate payloads handed to create_transaction: every field is
\* typed, none is range-checked
Payloads == {RowA, RowC, RowZeroAmount, RowZeroQuantity}

\* rows handed to TransactionCSVRow on their own: every amount of up to
\* MaxFracDigits fractional digits, quantities around the bound
ValidationAmounts ==
    {Amt(ip, fr, nd) : ip \in {0, 10}, fr \in 0..(10 ^ MaxFracDigits - 1), nd \in 0..MaxFracDigits}

ValidationRows ==
    {Row(1, 1, a, "PLN", 1, 1, q, 7) :
        a \in {b \in ValidationAmounts : b.fr < 10 ^ b.nd}, q \in 0..2}

(***************************************************************************)
(* TransactionCSVRow: row validation                                       *)
(***************************************************************************)
IsUUID(n) == n > 0

\* variant: the lower bound of amount is inclusive (ge=0)
AmountGeZero(a) == a.ip >= 0 /\ a.fr >= 0

\* Field(gt=0) on amount
AmountGtZero(a) == a.ip > 0 \/ a.fr > 0

\* variant: only digits that change the value count as decimal places
validate_amount_by_value(a) == a.nd <= 2 \/ a.fr % (10 ^ (a.nd - 2)) = 0

\* validate_amount: v.as_tuple().exponent < -2 raises
validate_amount(a) == ~(-a.nd < -2)

\* Field(gt=0) on quantity
QuantityGtZero(q) == q > 0

\* DictReader fills the trailing columns of a short line with None
FieldPresent(r, k) == k <= r.nf

\* the set of fields of the row that TransactionCSVRow rejects
FailingFields(r) ==
    {f \in {"transaction_id", "timestamp", "amount", "currency",
            "customer_id", "product_id", "quantity"} :
        CASE f = "transaction_id" -> ~(FieldPresent(r, 1) /\ IsUUID(r.tid))
          [] f = "timestamp" -> ~(FieldPresent(r, 2) /\ r.ts > 0)
          [] f = "amount" ->
                ~(FieldPresent(r, 3) /\ AmountGtZero(r.amt) /\ validate_amount(r.amt))
          [] f = "currency" -> ~(FieldPresent(r, 4) /\ r.cur \in Currencies)
          [] f = "customer_id" -> ~(FieldPresent(r, 5) /\ IsUUID(r.cid))
          [] f = "product_id" -> ~(FieldPresent(r, 6) /\ IsUUID(r.pid))
          [] OTHER -> ~(FieldPresent(r, 7) /\ QuantityGtZero(r.qty))}

\* variant: no row is refused by validation
RowValidatesAlways(r) == TRUE

\* TransactionCSVRow(**row): a line longer than the header carries the key
\* None, and the call itself raises TypeError before any field is looked at
RowValidates(r) == r.nf <= HeaderFields /\ FailingFields(r) = {}

\* ValidationError.raw_data is dict[str, str]: building the error entry of
\* a line shorter or longer than the header raises
RawDataBuilds(r) == r.nf = HeaderFields

(***************************************************************************)
(* Storage: committed tables and per-request sessions                      *)
(***************************************************************************)
EmptyTables == [transactions |-> {}, customers |-> {}, products |-> {}, batches |-> {}]

\* a session with nothing flushed
NewSession == [state |-> "active"] @@ EmptyTables

Procs == DOMAIN pc

\* what a statement of session p reads: committed rows and its own flushed rows
VisibleTransactions(p) == db.transactions \cup sess[p].transactions
VisibleCustomers(p) == db.customers \cup sess[p].customers
VisibleProducts(p) == db.products \cup sess[p].products

\* rows flushed by the other sessions and not yet committed or rolled back
OthersTransactionIds(p) ==
    {t.transaction_id : t \in UNION {sess[q].transactions : q \in Procs \ {p}}}
OthersCustomers(p) == UNION {sess[q].customers : q \in Procs \ {p}}
OthersProducts(p) == UNION {sess[q].products : q \in Procs \ {p}}

\* a failed flush rolls the database transaction back: everything the
\* session had flushed is gone and the session refuses further statements
FlushFailed(s) == [state |-> "inactive"] @@ EmptyTables

\* amount as stored in DECIMAL(10, 2), in hundredths
Cents(a) == a.ip * 100 + (IF a.nd = 0 THEN 0 ELSE IF a.nd = 1 THEN a.fr * 10 ELSE a.fr)

\* Transaction(**TransactionCreate(**validated_row.model_dump()).model_dump());
\* src is the request slot whose session inserted the row
TransactionOf(r, n) ==
    [transaction_id |-> r.tid, timestamp |-> r.ts, amount |-> Cents(r.amt),
     currency |-> r.cur, customer_id |-> r.cid, product_id |-> r.pid,
     quantity |-> r.qty, src |-> n]

\* variant: the existence query looks only at the rows of the current session
exists_in_session_only(p, tid) == \E t \in sess[p].transactions : t.transaction_id = tid

\* TransactionRepository.exists
exists(p, tid) == \E t \in VisibleTransactions(p) : t.transaction_id = tid

\* variant: no unique key against the rows already stored
PrimaryKeyWithinFlushOnly(visible, rows) ==
    \E i, j \in 1..Len(rows) : i < j /\ rows[i].tid = rows[j].tid

\* the primary key of transactions: the INSERTs of one flush conflict with
\* each other or with a row the session can see
PrimaryKeyViolation(visible, rows) ==
    \/ \E i, j \in 1..Len(rows) : i < j /\ rows[i].tid = rows[j].tid
    \/ \E i \in 1..Len(rows) : \E t \in visible : t.transaction_id = rows[i].tid

\* amount DECIMAL(10, 2): a value of more than 8 integer digits does not fit
NumericOverflow(rows) == \E i \in 1..Len(rows) : rows[i].amt.ip >= AmountIntLimit

\* ForeignKey("customers.customer_id"), ForeignKey("products.product_id"):
\* a transaction row must reference rows the session can see
ForeignKeyViolation(customers, products, rows) ==
    \E i \in 1..Len(rows) : rows[i].cid \notin customers \/ rows[i].pid \notin products

\* outcome of the flush in TransactionRepository.create_bulk
CreateBulkOutcome(visible, rows) ==
    IF NumericOverflow(rows) THEN "DataError"
    ELSE IF PrimaryKeyViolation(visible, rows) THEN "IntegrityError"
    ELSE "ok"

\* outcome of the flush in get_or_create_bulk: the ids found missing by the
\* SELECT are inserted; one that has appeared since violates the primary key
EntityInsertOutcome(visible, missing) ==
    IF missing \cap visible # {} THEN "IntegrityError" ELSE "ok"

(***************************************************************************)
(* Stores the report endpoints are asked about                             *)
(***************************************************************************)
\* stored transactions: 100.00 PLN, 10.00 EUR, and two of 0.15 EUR
StoredA == TransactionOf(Row(1, 1, Amt(100, 0, 2), "PLN", 1, 1, 1, 7), 1)
StoredB == TransactionOf(Row(2, 2, Amt(10, 0, 2), "EUR", 1, 2, 2, 7), 1)
StoredC == TransactionOf(Row(3, 3, Amt(0, 15, 2), "EUR", 1, 1, 1, 7), 1)
StoredD == TransactionOf(Row(4, 2, Amt(0, 15, 2), "EUR", 2, 1, 3, 7), 1)

StoredPool == {StoredA, StoredB, StoredC, StoredD}

EntityIds == {1, 2}

\* the tables after some imports: every transaction references a stored
\* customer and product; a customer or product may have no transaction
ReportStores ==
    {[transactions |-> ts, customers |-> cs, products |-> ps, batches |-> {}] :
        ts \in SUBSET StoredPool, cs \in SUBSET EntityIds, ps \in SUBSET EntityIds}

ReferencesHold(tables) ==
    \A t \in tables.transactions :
        t.customer_id \in tables.customers /\ t.product_id \in tables.products

(***************************************************************************)
(* ImportBatch bookkeeping                                                 *)
(***************************************************************************)
None == -1

\* error_details: absent, str(e) of the exception, or the JSON list of the
\* row errors (n: its length)
NoDetails == [kind |-> "none", cause |-> "none", n |-> 0]
CauseDetails(e) == [kind |-> "cause", cause |-> e, n |-> 0]
RowDetails(errs) == [kind |-> "rows", cause |-> "none", n |-> Len(errs)]

\* ImportBatchRepository.create: status "pending", counts at their defaults
NewBatch(id) ==
    [batch_id |-> id, status |-> "pending", total_rows |-> 0,
     processed_rows |-> 0, error_rows |-> 0, error_details |-> NoDetails]

\* ImportBatchRepository.update_status on the rows the session holds
update_status(batches, id, status, processed_rows, error_rows, error_details) ==
    {IF b.batch_id = id
     THEN [b EXCEPT !.status = status,
                    !.processed_rows = IF processed_rows # None THEN processed_rows ELSE @,
                    !.error_rows = IF error_rows # None THEN error_rows ELSE @,
                    !.error_details = IF error_details # NoDetails THEN error_details ELSE @]
     ELSE b : b \in batches}

\* variant: the update after parsing already writes the final status
StatusAfterParseCompleted == "completed"

StatusAfterParse == "processing"
\* variant: the final update writes the initial status
StatusOnSuccessPending == "pending"

StatusOnSuccess == "completed"
StatusOnFailure == "failed"

(***************************************************************************)
(* Error entries and responses                                             *)
(***************************************************************************)
NoField == "None"

\* schemas.ValidationError(row_number, field, error): kind abstracts the
\* message text, tid is the identifier the message names (0: none)
ErrorEntry(n, field, kind, tid) ==
    [row_number |-> n, field |-> field, kind |-> kind, tid |-> tid]

\* the dict import_csv builds for each error: field "general" when None
ResponseError(e) ==
    [row |-> e.row_number, error |-> [kind |-> e.kind, tid |-> e.tid],
     field |-> IF e.field = NoField THEN "general" ELSE e.field]

\* variant: processed_count counts every row that was read
FileUploadResponseAllRows(valid, errors) ==
    [kind |-> "response", processed_count |-> Len(valid) + Len(errors),
     error_count |-> Len(errors), errors |-> [i \in 1..Len(errors) |-> ResponseError(errors[i])],
     http |-> 0]

\* import_csv: the FileUploadResponse built from the survivors and the errors
FileUploadResponse(valid, errors) ==
    [kind |-> "response", processed_count |-> Len(valid),
     error_count |-> Len(errors), errors |-> [i \in 1..Len(errors) |-> ResponseError(errors[i])],
     http |-> 0]

NoOutput == [kind |-> "none", processed_count |-> 0, error_count |-> 0, errors |-> <<>>, http |-> 0]

RaisedOutput == [NoOutput EXCEPT !.kind = "error"]

NoFile == File("none", <<>>)

NoRequest ==
    [file |-> NoFile, tracked |-> FALSE, imp |-> 0, pre |-> EmptyTables, repeat |-> FALSE]

NoLocals ==
    [idx |-> 0, valid |-> <<>>, errors |-> <<>>, total_rows |-> 0, missing |-> {},
     batch_id |-> 0, exc |-> "none", raised |-> "none"]

\* no service call other than an import is running in the slot
NoCall == [op |-> "none"]

(***************************************************************************)
(* Initial states                                                          *)
(***************************************************************************)
InitOver(P, repos) ==
    /\ import_batch_repo \in repos
    /\ db = EmptyTables
    /\ sess = [p \in P |-> NewSession]
    /\ pc = [p \in P |-> "idle"]
    /\ req = [p \in P |-> NoRequest]
    /\ st = [p \in P |-> NoLocals]
    /\ out = [p \in P |-> NoOutput]
    /\ call = [p \in P |-> NoCall]
    /\ nimports = 0

\* one request at a time; the service is built with or without the
\* ImportBatchRepository
Init == InitOver({1}, BOOLEAN)

\* two requests that may overlap, the service built as get_import_service
\* builds it (with the ImportBatchRepository)
InitConc == InitOver({1, 2}, {TRUE})

(***************************************************************************)
(* upload_transactions / ImportService.import_csv, one step per await      *)
(***************************************************************************)
\* the endpoint is called with a file; the request gets a fresh session
\* (again: the file is the one the previous request of p imported)
BeginRequest(p, f, again) ==
    /\ nimports < MaxImports
    /\ nimports' = nimports + 1
    /\ req' = [req EXCEPT ![p] =
                 [file |-> f, tracked |-> import_batch_repo, imp |-> nimports + 1, pre |-> db,
                  repeat |-> again]]
    /\ st' = [st EXCEPT ![p] = NoLocals]
    /\ out' = [out EXCEPT ![p] = NoOutput]
    /\ sess' = [sess EXCEPT ![p] = NewSession]
    /\ pc' = [pc EXCEPT ![p] = "create"]
    /\ UNCHANGED <<db, import_batch_repo, call>>

upload_transactions(p, f) ==
    /\ pc[p] = "idle"
    /\ BeginRequest(p, f, FALSE)

\* the file whose import just returned a response is uploaded once more
upload_again(p) ==
    /\ pc[p] = "done"
    /\ out[p].kind = "response"
    /\ BeginRequest(p, req[p].file, TRUE)

\* import_csv: batch = await self.import_batch_repo.create(filename)
create_batch(p) ==
    /\ pc[p] = "create"
    /\ IF req[p].tracked
       THEN /\ sess' = [sess EXCEPT ![p].batches = @ \cup {NewBatch(req[p].imp)}]
            /\ st' = [st EXCEPT ![p].batch_id = req[p].imp]
       ELSE UNCHANGED <<sess, st>>
    /\ pc' = [pc EXCEPT ![p] = "header"]
    /\ UNCHANGED <<db, req, out, nimports, import_batch_repo, call>>

\* variant: the required names are not compared with the header
HeaderOutcomeUnchecked(f) ==
    CASE f.hdr = "undecodable" -> "raise"
      [] f.hdr = "empty" -> "empty"
      [] OTHER -> "ok"

\* _parse_csv up to the row loop: decode, DictReader, header check
HeaderOutcome(f) ==
    CASE f.hdr = "undecodable" -> "raise"
      [] f.hdr = "empty" -> "empty"
      [] f.hdr = "missing" -> "missing"
      [] OTHER -> "ok"

parse_header(p) ==
    /\ pc[p] = "header"
    /\ LET f == req[p].file
           o == HeaderOutcome(f)
       IN  CASE o = "raise" ->
                  /\ st' = [st EXCEPT ![p].exc = "UnicodeDecodeError", ![p].raised = "decode"]
                  /\ pc' = [pc EXCEPT ![p] = "except"]
             [] o = "empty" ->
                  /\ st' = [st EXCEPT ![p].errors = <<ErrorEntry(0, NoField, "empty", 0)>>]
                  /\ pc' = [pc EXCEPT ![p] = "processing"]
             [] o = "missing" ->
                  /\ st' = [st EXCEPT ![p].errors = <<ErrorEntry(0, NoField, "missing_headers", 0)>>]
                  /\ pc' = [pc EXCEPT ![p] = "processing"]
             [] OTHER ->
                  /\ st' = [st EXCEPT ![p].idx = 1]
                  /\ pc' = [pc EXCEPT ![p] = IF f.rows = <<>> THEN "processing" ELSE "rows"]
    /\ UNCHANGED <<db, sess, req, out, nimports, import_batch_repo, call>>

\* variant: enumerate(csv_reader, start=1)
RowNumberFromOne(k) == k

\* enumerate(csv_reader, start=2): the k-th data row is row k + 1
RowNumber(k) == k + 1

\* one iteration of the row loop of _parse_csv
parse_row(p) ==
    /\ pc[p] = "rows"
    /\ LET rows == req[p].file.rows
           k == st[p].idx
           r == rows[k]
           more == IF k < Len(rows) THEN "rows" ELSE "processing"
           counted == [st[p] EXCEPT !.total_rows = @ + 1, !.idx = k + 1]
       IN  IF RowValidates(r)
           THEN /\ st' = [st EXCEPT ![p] =
                            IF exists(p, r.tid)
                            THEN [counted EXCEPT !.errors =
                                    Append(@, ErrorEntry(RowNumber(k), "transaction_id", "exists", r.tid))]
                            ELSE [counted EXCEPT !.valid = Append(@, r)]]
                /\ pc' = [pc EXCEPT ![p] = more]
           ELSE IF RawDataBuilds(r)
           THEN /\ st' = [st EXCEPT ![p] =
                            [counted EXCEPT !.errors =
                               Append(@, ErrorEntry(RowNumber(k), NoField, "validation", 0))]]
                /\ pc' = [pc EXCEPT ![p] = more]
           ELSE /\ st' = [st EXCEPT ![p] =
                            [counted EXCEPT !.exc = "ValidationError", !.raised = "row"]]
                /\ pc' = [pc EXCEPT ![p] = "except"]
    /\ UNCHANGED <<db, sess, req, out, nimports, import_batch_repo, call>>

\* import_csv: update_status(status="processing", processed_rows=0, error_rows=len(errors))
update_processing(p) ==
    /\ pc[p] = "processing"
    /\ IF req[p].tracked
       THEN sess' = [sess EXCEPT ![p].batches =
                       update_status(@, st[p].batch_id, StatusAfterParse, 0,
                                     Len(st[p].errors), NoDetails)]
       ELSE UNCHANGED sess
    /\ pc' = [pc EXCEPT ![p] = IF st[p].valid # <<>> THEN "cust_select" ELSE "completed"]
    /\ UNCHANGED <<db, req, st, out, nimports, import_batch_repo, call>>

\* variant: no customer id is collected from the batch
customer_ids_skipped(valid) == {}

\* _process_transactions: customer_ids = {t.customer_id for t in transactions}
customer_ids(valid) == {valid[i].cid : i \in 1..Len(valid)}
product_ids(valid) == {valid[i].pid : i \in 1..Len(valid)}

\* CustomerRepository.get_or_create_bulk: the SELECT of the existing customers
customers_select(p) ==
    /\ pc[p] = "cust_select"
    /\ LET missing_ids == customer_ids(st[p].valid) \ VisibleCustomers(p)
       IN  /\ st' = [st EXCEPT ![p].missing = missing_ids]
           /\ pc' = [pc EXCEPT ![p] = IF missing_ids # {} THEN "cust_flush" ELSE "prod_select"]
    /\ UNCHANGED <<db, sess, req, out, nimports, import_batch_repo, call>>

\* CustomerRepository.get_or_create_bulk: add_all(new_customers); flush().
\* The INSERT waits while another open transaction holds the same key.
customers_flush(p) ==
    /\ pc[p] = "cust_flush"
    /\ LET o == EntityInsertOutcome(VisibleCustomers(p), st[p].missing)
       IN  /\ o = "ok" => st[p].missing \cap OthersCustomers(p) = {}
           /\ IF o = "ok"
              THEN /\ sess' = [sess EXCEPT ![p].customers = @ \cup st[p].missing]
                   /\ st' = [st EXCEPT ![p].missing = {}]
                   /\ pc' = [pc EXCEPT ![p] = "prod_select"]
              ELSE /\ sess' = [sess EXCEPT ![p] = FlushFailed(@)]
                   /\ st' = [st EXCEPT ![p].missing = {}, ![p].exc = o, ![p].raised = "customers"]
                   /\ pc' = [pc EXCEPT ![p] = "except"]
    /\ UNCHANGED <<db, req, out, nimports, import_batch_repo, call>>

\* ProductRepository.get_or_create_bulk: the SELECT of the existing products
products_select(p) ==
    /\ pc[p] = "prod_select"
    /\ LET missing_ids == product_ids(st[p].valid) \ VisibleProducts(p)
       IN  /\ st' = [st EXCEPT ![p].missing = missing_ids]
           /\ pc' = [pc EXCEPT ![p] = IF missing_ids # {} THEN "prod_flush" ELSE "bulk"]
    /\ UNCHANGED <<db, sess, req, out, nimports, import_batch_repo, call>>

\* ProductRepository.get_or_create_bulk: add_all(new_products); flush()
products_flush(p) ==
    /\ pc[p] = "prod_flush"
    /\ LET o == EntityInsertOutcome(VisibleProducts(p), st[p].missing)
       IN  /\ o = "ok" => st[p].missing \cap OthersProducts(p) = {}
           /\ IF o = "ok"
              THEN /\ sess' = [sess EXCEPT ![p].products = @ \cup st[p].missing]
                   /\ st' = [st EXCEPT ![p].missing = {}]
                   /\ pc' = [pc EXCEPT ![p] = "bulk"]
              ELSE /\ sess' = [sess EXCEPT ![p] = FlushFailed(@)]
                   /\ st' = [st EXCEPT ![p].missing = {}, ![p].exc = o, ![p].raised = "products"]
                   /\ pc' = [pc EXCEPT ![p] = "except"]
    /\ UNCHANGED <<db, req, out, nimports, import_batch_repo, call>>

\* variant: every row is inserted and committed on its own, up to the first
\* one the storage refuses
create_bulk_autocommit(d, s, rows, n) ==
    LET visible == d.transactions \cup s.transactions
        o == CreateBulkOutcome(visible, rows)
        accepted == {k \in 0..Len(rows) :
                        \A j \in 1..k : CreateBulkOutcome(visible, SubSeq(rows, 1, j)) = "ok"}
        last_ok == CHOOSE k \in accepted : \A j \in accepted : j <= k
    IN  [outcome |-> o,
         db |-> [d EXCEPT !.transactions =
                   @ \cup {TransactionOf(rows[i], n) : i \in 1..last_ok}],
         sess |-> IF o = "ok" THEN s ELSE FlushFailed(s)]

\* TransactionRepository.create_bulk: add_all(transactions); flush().
\* All the INSERTs are flushed in the open transaction of the session: on
\* success the rows are pending commit, on failure nothing of the session is.
create_bulk_result(d, s, rows, n) ==
    LET c == CreateBulkOutcome(d.transactions \cup s.transactions, rows)
        o == IF c = "ok" /\ ForeignKeyViolation(d.customers \cup s.customers,
                                                d.products \cup s.products, rows)
             THEN "IntegrityError" ELSE c
    IN  [outcome |-> o,
         db |-> d,
         sess |-> IF o = "ok"
                  THEN [s EXCEPT !.transactions =
                          @ \cup {TransactionOf(rows[i], n) : i \in 1..Len(rows)}]
                  ELSE FlushFailed(s)]

\* _process_transactions: await self.transaction_repo.create_bulk(transactions)
create_bulk(p) ==
    /\ pc[p] = "bulk"
    /\ LET rows == st[p].valid
           res == create_bulk_result(db, sess[p], rows, p)
       IN  /\ res.outcome = "ok" =>
                 {rows[i].tid : i \in 1..Len(rows)} \cap OthersTransactionIds(p) = {}
           /\ db' = res.db
           /\ sess' = [sess EXCEPT ![p] = res.sess]
           /\ IF res.outcome = "ok"
              THEN /\ pc' = [pc EXCEPT ![p] = "completed"]
                   /\ UNCHANGED st
              ELSE /\ pc' = [pc EXCEPT ![p] = "except"]
                   /\ st' = [st EXCEPT ![p].exc = res.outcome, ![p].raised = "create_bulk"]
    /\ UNCHANGED <<req, out, nimports, import_batch_repo, call>>

\* import_csv: update_status(status="completed", ...) and the returned response
update_completed(p) ==
    /\ pc[p] = "completed"
    /\ IF req[p].tracked
       THEN sess' = [sess EXCEPT ![p].batches =
                       update_status(@, st[p].batch_id, StatusOnSuccess, Len(st[p].valid),
                                     Len(st[p].errors),
                                     IF st[p].errors # <<>> THEN RowDetails(st[p].errors)
                                     ELSE NoDetails)]
       ELSE UNCHANGED sess
    /\ out' = [out EXCEPT ![p] = FileUploadResponse(st[p].valid, st[p].errors)]
    /\ pc' = [pc EXCEPT ![p] = "end"]
    /\ UNCHANGED <<db, req, st, nimports, import_batch_repo, call>>

\* import_csv: the except branch.  update_status starts with a SELECT, which
\* a session whose flush failed refuses (PendingRollbackError); the new
\* exception replaces the one being handled.  Either way import_csv raises.
import_failed(p) ==
    /\ pc[p] = "except"
    /\ IF req[p].tracked
       THEN IF sess[p].state = "inactive"
            THEN /\ st' = [st EXCEPT ![p].exc = "PendingRollbackError"]
                 /\ UNCHANGED sess
            ELSE /\ sess' = [sess EXCEPT ![p].batches =
                               update_status(@, st[p].batch_id, StatusOnFailure, None, None,
                                             CauseDetails(st[p].exc))]
                 /\ UNCHANGED st
       ELSE UNCHANGED <<sess, st>>
    /\ out' = [out EXCEPT ![p] = RaisedOutput]
    /\ pc' = [pc EXCEPT ![p] = "end"]
    /\ UNCHANGED <<db, req, nimports, import_batch_repo, call>>

\* variant: the endpoint answers 200 whatever import_csv did
HttpStatusAlwaysOk(o) == 200

\* the status the endpoint answers with: the response as is, or
\* HTTPException(500) for anything import_csv raised
HttpStatus(o) == IF o.kind = "response" THEN 200 ELSE 500

\* end of the unit of work when the request handler returned: commit
SessionCommit(d, s) ==
    [transactions |-> d.transactions \cup s.transactions,
     customers |-> d.customers \cup s.customers,
     products |-> d.products \cup s.products,
     batches |-> d.batches \cup s.batches]

\* end of the unit of work when the request handler raised: rollback
SessionRollback(d, s) == d

\* upload_transactions: return result / raise HTTPException, then the
\* session dependency ends the unit of work
end_request(p) ==
    /\ pc[p] = "end"
    /\ out' = [out EXCEPT ![p].http = HttpStatus(out[p])]
    /\ db' = IF HttpStatus(out[p]) = 200 THEN SessionCommit(db, sess[p])
             ELSE SessionRollback(db, sess[p])
    /\ sess' = [sess EXCEPT ![p] = NewSession]
    /\ pc' = [pc EXCEPT ![p] = "done"]
    /\ UNCHANGED <<req, st, nimports, import_batch_repo, call>>

\* the request and its locals are gone; the slot takes the next upload
close_request(p) ==
    /\ pc[p] = "done"
    /\ pc' = [pc EXCEPT ![p] = "idle"]
    /\ req' = [req EXCEPT ![p] = NoRequest]
    /\ st' = [st EXCEPT ![p] = NoLocals]
    /\ out' = [out EXCEPT ![p] = NoOutput]
    /\ call' = [call EXCEPT ![p] = NoCall]
    /\ UNCHANGED <<db, sess, nimports, import_batch_repo>>

(***************************************************************************)
(* TransactionService.list_transactions                                    *)
(***************************************************************************)
\* the values of the optional filters customer_id and product_id
Filters == {None} \cup EntityIds

\* WHERE of get_paginated: each condition is added only when its filter is given
Matches(t, customer_id, product_id) ==
    /\ customer_id # None => t.customer_id = customer_id
    /\ product_id # None => t.product_id = product_id

\* ORDER BY timestamp DESC: the orders in which a query may deliver the rows;
\* the statement names no second sort key, so rows of equal timestamp may
\* come in either order, and in a different one in the next execution
NewestFirst(rows) ==
    {s \in [1..Cardinality(rows) -> rows] :
        /\ \A i, j \in DOMAIN s : i # j => s[i] # s[j]
        /\ \A i, j \in DOMAIN s : i < j => s[i].timestamp >= s[j].timestamp}

\* OFFSET offset LIMIT limit of a delivered order
OffsetLimit(s, offset, limit) ==
    [k \in 1..(IF Len(s) <= offset THEN 0
               ELSE IF Len(s) - offset < limit THEN Len(s) - offset ELSE limit)
        |-> s[offset + k]]

\* TransactionListParams.offset
offset(page, page_size) == (page - 1) * page_size

\* TransactionListResponse as list_transactions builds it
TransactionListResponse(items, total, page, page_size) ==
    LET total_pages == (total + page_size - 1) \div page_size
    IN  [items |-> items, total |-> total, page |-> page, page_size |-> page_size,
         total_pages |-> total_pages, has_next |-> page < total_pages,
         has_previous |-> page > 1]

NoResponse == [none |-> TRUE]

\* a listing request starts with a fresh session (pages: the responses to
\* the pages before this one, asked with the same filter and page_size)
BeginList(p, customer_id, product_id, page, page_size, pages) ==
    /\ call' = [call EXCEPT ![p] =
                  [op |-> "list_transactions", customer_id |-> customer_id,
                   product_id |-> product_id, page |-> page, page_size |-> page_size,
                   total |-> None, response |-> NoResponse, pages |-> pages,
                   pre |-> db]]
    /\ sess' = [sess EXCEPT ![p] = NewSession]
    /\ pc' = [pc EXCEPT ![p] = "ls_count"]
    /\ UNCHANGED <<db, req, st, out, nimports, import_batch_repo>>

\* GET /transactions: the first page
list_transactions(p, customer_id, product_id, page_size) ==
    /\ pc[p] = "idle"
    /\ BeginList(p, customer_id, product_id, 1, page_size, <<>>)

\* GET /transactions again, same filter and page_size, the page after the
\* one just answered; the last page asked is the one after total_pages
list_transactions_next(p) ==
    /\ pc[p] = "done"
    /\ call[p].op = "list_transactions"
    /\ call[p].page <= call[p].response.total_pages
    /\ BeginList(p, call[p].customer_id, call[p].product_id, call[p].page + 1,
                 call[p].page_size, Append(call[p].pages, call[p].response))

\* get_paginated: SELECT count(*) with the conditions
get_paginated_count(p) ==
    /\ pc[p] = "ls_count"
    /\ call' = [call EXCEPT ![p].total =
                  Cardinality({t \in VisibleTransactions(p) :
                                 Matches(t, call[p].customer_id, call[p].product_id)})]
    /\ pc' = [pc EXCEPT ![p] = "ls_rows"]
    /\ UNCHANGED <<db, sess, req, st, out, nimports, import_batch_repo>>

\* get_paginated: the data query, and the response list_transactions builds
\* from its rows and the count
get_paginated_rows(p) ==
    /\ pc[p] = "ls_rows"
    /\ LET c == call[p]
           rows == {t \in VisibleTransactions(p) : Matches(t, c.customer_id, c.product_id)}
       IN  \E s \in NewestFirst(rows) :
              call' = [call EXCEPT ![p].response =
                         TransactionListResponse(
                             OffsetLimit(s, offset(c.page, c.page_size), c.page_size),
                             c.total, c.page, c.page_size)]
    /\ pc' = [pc EXCEPT ![p] = "done"]
    /\ UNCHANGED <<db, sess, req, st, out, nimports, import_batch_repo>>

ListStep(p) ==
    \/ list_transactions_next(p)
    \/ get_paginated_count(p)
    \/ get_paginated_rows(p)
    \/ close_request(p)

(***************************************************************************)
(* TransactionService.create_transaction, one step per await               *)
(***************************************************************************)
\* the service is called with a TransactionCreate; the call gets a fresh
\* session (pre: the tables when the call began)
create_transaction(p, data) ==
    /\ pc[p] = "idle"
    /\ nimports < MaxImports
    /\ nimports' = nimports + 1
    /\ call' = [call EXCEPT ![p] =
                  [op |-> "create_transaction", data |-> data, pre |-> db,
                   exc |-> "none", result |-> "none"]]
    /\ sess' = [sess EXCEPT ![p] = NewSession]
    /\ pc' = [pc EXCEPT ![p] = "ct_cust_select"]
    /\ UNCHANGED <<db, req, st, out, import_batch_repo>>

\* a flush of create_transaction raised: the exception leaves the call
CallRaised(p, e) ==
    /\ sess' = [sess EXCEPT ![p] = FlushFailed(@)]
    /\ call' = [call EXCEPT ![p].exc = e]
    /\ pc' = [pc EXCEPT ![p] = "ct_end"]

\* CustomerRepository.get_or_create: the SELECT
customer_get(p) ==
    /\ pc[p] = "ct_cust_select"
    /\ pc' = [pc EXCEPT ![p] = IF call[p].data.cid \in VisibleCustomers(p)
                               THEN "ct_prod_select" ELSE "ct_cust_flush"]
    /\ UNCHANGED <<db, sess, req, st, out, nimports, import_batch_repo, call>>

\* CustomerRepository.get_or_create: add(customer); flush()
customer_create(p) ==
    /\ pc[p] = "ct_cust_flush"
    /\ LET new == {call[p].data.cid}
           o == EntityInsertOutcome(VisibleCustomers(p), new)
       IN  /\ o = "ok" => new \cap OthersCustomers(p) = {}
           /\ IF o = "ok"
              THEN /\ sess' = [sess EXCEPT ![p].customers = @ \cup new]
                   /\ pc' = [pc EXCEPT ![p] = "ct_prod_select"]
                   /\ UNCHANGED call
              ELSE CallRaised(p, o)
    /\ UNCHANGED <<db, req, st, out, nimports, import_batch_repo>>

\* ProductRepository.get_or_create: the SELECT
product_get(p) ==
    /\ pc[p] = "ct_prod_select"
    /\ pc' = [pc EXCEPT ![p] = IF call[p].data.pid \in VisibleProducts(p)
                               THEN "ct_create" ELSE "ct_prod_flush"]
    /\ UNCHANGED <<db, sess, req, st, out, nimports, import_batch_repo, call>>

\* ProductRepository.get_or_create: add(product); flush()
product_create(p) ==
    /\ pc[p] = "ct_prod_flush"
    /\ LET new == {call[p].data.pid}
           o == EntityInsertOutcome(VisibleProducts(p), new)
       IN  /\ o = "ok" => new \cap OthersProducts(p) = {}
           /\ IF o = "ok"
              THEN /\ sess' = [sess EXCEPT ![p].products = @ \cup new]
                   /\ pc' = [pc EXCEPT ![p] = "ct_create"]
                   /\ UNCHANGED call
              ELSE CallRaised(p, o)
    /\ UNCHANGED <<db, req, st, out, nimports, import_batch_repo>>

\* TransactionRepository.create: add(transaction); flush()
create(p) ==
    /\ pc[p] = "ct_create"
    /\ LET res == create_bulk_result(db, sess[p], <<call[p].data>>, p)
       IN  /\ res.outcome = "ok" => call[p].data.tid \notin OthersTransactionIds(p)
           /\ IF res.outcome = "ok"
              THEN /\ sess' = [sess EXCEPT ![p] = res.sess]
                   /\ pc' = [pc EXCEPT ![p] = "ct_end"]
                   /\ UNCHANGED call
              ELSE CallRaised(p, res.outcome)
    /\ UNCHANGED <<db, req, st, out, nimports, import_batch_repo>>

\* create_transaction returns the TransactionResponse or lets the exception
\* out, then the unit of work of the call ends
create_transaction_end(p) ==
    /\ pc[p] = "ct_end"
    /\ call' = [call EXCEPT ![p].result =
                  IF call[p].exc = "none" THEN "returned" ELSE "raised"]
    /\ db' = IF call[p].exc = "none" THEN SessionCommit(db, sess[p])
             ELSE SessionRollback(db, sess[p])
    /\ sess' = [sess EXCEPT ![p] = NewSession]
    /\ pc' = [pc EXCEPT ![p] = "done"]
    /\ UNCHANGED <<req, st, out, nimports, import_batch_repo>>

(***************************************************************************)
(* Reports: the endpoints of reports.py, ReportService and the summary     *)
(* queries of TransactionRepository                                        *)
(***************************************************************************)
Dates == {None} \cup 1..MaxDate

\* the CASE of the aggregation query: the rate of the currency, in tenths
RateTenths(cur) ==
    CASE cur = "PLN" -> 10
      [] cur = "EUR" -> 43
      [] cur = "USD" -> 40
      [] OTHER -> 10

\* func.sum over a set of rows of f(row); SUM over no row is NULL, which the
\* code replaces by 0
RECURSIVE SumConverted(_)
SumConverted(rows) ==
    IF rows = {} THEN 0
    ELSE LET t == CHOOSE x \in rows : TRUE
         IN  t.amount * RateTenths(t.currency) + SumConverted(rows \ {t})

RECURSIVE SumQuantity(_)
SumQuantity(rows) ==
    IF rows = {} THEN 0
    ELSE LET t == CHOOSE x \in rows : TRUE
         IN  t.quantity + SumQuantity(rows \ {t})

\* variant: quantize(Decimal("0.01")) with the default rounding of the
\* decimal context (half to even)
RoundHalfEven(x) ==
    LET q == x \div 10
        r == x % 10
    IN  IF r > 5 \/ (r = 5 /\ q % 2 = 1) THEN q + 1 ELSE q

\* quantize(Decimal("0.01"), rounding=ROUND_HALF_UP) of a value given in
\* thousandths; the result is in hundredths
RoundHalfUp(x) == IF x >= 0 THEN (x + 5) \div 10 ELSE -((-x + 5) \div 10)

\* variant: the upper bound of the window is exclusive
InWindowEndExclusive(ts, start_date, end_date) ==
    /\ start_date # None => ts >= start_date
    /\ end_date # None => ts < end_date

\* conditions of the summary queries: timestamp >= start_date if given,
\* timestamp <= end_date if given
InWindow(ts, start_date, end_date) ==
    /\ start_date # None => ts >= start_date
    /\ end_date # None => ts <= end_date

\* variant: start_date equal to end_date is refused as well
DateRangeInvalidOrEqual(start_date, end_date) ==
    start_date # None /\ end_date # None /\ start_date >= end_date

\* reports.py: if start_date and end_date and start_date > end_date
DateRangeInvalid(start_date, end_date) ==
    start_date # None /\ end_date # None /\ start_date > end_date

MaxOf(S) == CHOOSE x \in S : \A y \in S : y <= x

\* variant: COUNT(product_id) without DISTINCT
customer_summary_row_count(rows) ==
    [total_amount_pln |-> RoundHalfUp(SumConverted(rows)),
     unique_products_count |-> Cardinality(rows),
     last_transaction_date |-> IF rows = {} THEN None ELSE MaxOf({t.timestamp : t \in rows})]

\* TransactionRepository.get_customer_summary on the rows the WHERE selects
customer_summary(rows) ==
    [total_amount_pln |-> RoundHalfUp(SumConverted(rows)),
     unique_products_count |-> Cardinality({t.product_id : t \in rows}),
     last_transaction_date |-> IF rows = {} THEN None ELSE MaxOf({t.timestamp : t \in rows})]

\* TransactionRepository.get_product_summary on the rows the WHERE selects
product_summary(rows) ==
    [total_quantity_sold |-> SumQuantity(rows),
     total_revenue_pln |-> RoundHalfUp(SumConverted(rows)),
     unique_customers_count |-> Cardinality({t.customer_id : t \in rows})]

NoSummary == [none |-> TRUE]

\* the answer of the request that came before in the slot (none: status 0)
NoPrevious == [status |-> 0, summary |-> NoSummary]

\* a report request starts with a fresh session (pre: the tables when it
\* began, prev: the answer to the same request made just before, if any)
BeginSummary(p, kind, id, start_date, end_date, prev) ==
    /\ call' = [call EXCEPT ![p] =
                  [op |-> kind, id |-> id, start_date |-> start_date, end_date |-> end_date,
                   status |-> 0, invoked |-> FALSE, queried |-> FALSE, matched |-> {},
                   summary |-> NoSummary, pre |-> db, prev |-> prev]]
    /\ sess' = [sess EXCEPT ![p] = NewSession]
    /\ pc' = [pc EXCEPT ![p] = "rp_dates"]
    /\ UNCHANGED <<db, req, st, out, nimports, import_batch_repo>>

\* GET /reports/customer-summary/{id} or /reports/product-summary/{id}
get_summary(p, kind, id, start_date, end_date) ==
    /\ pc[p] = "idle"
    /\ BeginSummary(p, kind, id, start_date, end_date, NoPrevious)

\* the request that was just answered is made once more
get_summary_again(p) ==
    /\ pc[p] = "done"
    /\ call[p].op \in {"customer_summary", "product_summary"}
    /\ call[p].prev = NoPrevious
    /\ BeginSummary(p, call[p].op, call[p].id, call[p].start_date, call[p].end_date,
                    [status |-> call[p].status, summary |-> call[p].summary])

\* the endpoint validates the date range: HTTP 400 before the service is called
check_dates(p) ==
    /\ pc[p] = "rp_dates"
    /\ IF DateRangeInvalid(call[p].start_date, call[p].end_date)
       THEN /\ call' = [call EXCEPT ![p].status = 400]
            /\ pc' = [pc EXCEPT ![p] = "done"]
       ELSE /\ pc' = [pc EXCEPT ![p] = "rp_exists"]
            /\ UNCHANGED call
    /\ UNCHANGED <<db, sess, req, st, out, nimports, import_batch_repo>>

\* variant: an entity counts as existing only if it has a transaction
entity_exists_by_history(p, kind, id) ==
    IF kind = "customer_summary"
    THEN \E t \in VisibleTransactions(p) : t.customer_id = id
    ELSE \E t \in VisibleTransactions(p) : t.product_id = id

\* variant: the service resolves the entity with get_or_create
check_exists_get_or_create(p) ==
    /\ pc[p] = "rp_exists"
    /\ sess' = IF call[p].op = "customer_summary"
               THEN [sess EXCEPT ![p].customers = @ \cup ({call[p].id} \ db.customers)]
               ELSE [sess EXCEPT ![p].products = @ \cup ({call[p].id} \ db.products)]
    /\ call' = [call EXCEPT ![p].invoked = TRUE]
    /\ pc' = [pc EXCEPT ![p] = "rp_query"]
    /\ UNCHANGED <<db, req, st, out, nimports, import_batch_repo>>

\* CustomerRepository.exists / ProductRepository.exists
entity_exists(p, kind, id) ==
    IF kind = "customer_summary" THEN id \in VisibleCustomers(p) ELSE id \in VisibleProducts(p)

\* ReportService.get_*_summary: the existence check; None makes the
\* endpoint answer HTTP 404
check_exists(p) ==
    /\ pc[p] = "rp_exists"
    /\ IF entity_exists(p, call[p].op, call[p].id)
       THEN /\ call' = [call EXCEPT ![p].invoked = TRUE]
            /\ pc' = [pc EXCEPT ![p] = "rp_query"]
       ELSE /\ call' = [call EXCEPT ![p].invoked = TRUE, ![p].status = 404]
            /\ pc' = [pc EXCEPT ![p] = "done"]
    /\ UNCHANGED <<db, sess, req, st, out, nimports, import_batch_repo>>

\* the aggregation query and the response built from its row
run_summary(p) ==
    /\ pc[p] = "rp_query"
    /\ LET c == call[p]
           rows == {t \in VisibleTransactions(p) :
                      /\ IF c.op = "customer_summary" THEN t.customer_id = c.id
                         ELSE t.product_id = c.id
                      /\ InWindow(t.timestamp, c.start_date, c.end_date)}
       IN  call' = [call EXCEPT ![p].queried = TRUE,
                                ![p].matched = rows,
                                ![p].summary = IF c.op = "customer_summary"
                                               THEN customer_summary(rows)
                                               ELSE product_summary(rows),
                                ![p].status = 200]
    /\ pc' = [pc EXCEPT ![p] = "done"]
    /\ UNCHANGED <<db, sess, req, st, out, nimports, import_batch_repo>>

ReportStep(p) ==
    \/ get_summary_again(p)
    \/ check_dates(p)
    \/ check_exists(p)
    \/ run_summary(p)
    \/ close_request(p)

(***************************************************************************)
(* ReportService.convert_to_pln                                            *)
(***************************************************************************)
\* EXCHANGE_RATES.get(currency, Decimal("1.0")), in tenths
EXCHANGE_RATES(currency) ==
    CASE currency = "PLN" -> 10
      [] currency = "EUR" -> 43
      [] currency = "USD" -> 40
      [] OTHER -> 10

\* Decimal.quantize(Decimal("0.01")) without a rounding argument, of a value
\* given in thousandths: the rounding of the decimal context, ROUND_HALF_EVEN
quantize(x) ==
    LET q == x \div 10
        r == x % 10
    IN  IF r > 5 \/ (r = 5 /\ q % 2 = 1) THEN q + 1 ELSE q

\* amount in hundredths; the result is in hundredths
convert_to_pln(amount, currency) == quantize(amount * EXCHANGE_RATES(currency))

\* the tables of a customer whose only transaction has the given amount and currency
OnlyTransaction(amount, currency) ==
    [transactions |-> {[transaction_id |-> 1, timestamp |-> 1, amount |-> amount,
                        currency |-> currency, customer_id |-> 1, product_id |-> 1,
                        quantity |-> 1, src |-> 1]},
     customers |-> {1}, products |-> {1}, batches |-> {}]

\* convert_to_pln applied to the amount and currency of the stored transaction
convert(p) ==
    /\ pc[p] = "convert"
    /\ call' = [call EXCEPT ![p].converted = convert_to_pln(call[p].amount, call[p].currency)]
    /\ pc' = [pc EXCEPT ![p] = "summarise"]
    /\ UNCHANGED <<db, sess, req, st, out, nimports, import_batch_repo>>

\* get_customer_summary for the customer of that transaction, no date bounds
summarise(p) ==
    /\ pc[p] = "summarise"
    /\ call' = [call EXCEPT ![p].summary =
                  customer_summary({t \in VisibleTransactions(p) :
                                      t.customer_id = 1 /\ InWindow(t.timestamp, None, None)})]
    /\ pc' = [pc EXCEPT ![p] = "done"]
    /\ UNCHANGED <<db, sess, req, st, out, nimports, import_batch_repo>>

(***************************************************************************)
(* TransactionCSVRow applied to one row                                    *)
(***************************************************************************)
validate_row(p) ==
    /\ pc[p] = "validate"
    /\ call' = [call EXCEPT ![p].result =
                  IF RowValidates(call[p].row) THEN "valid" ELSE "invalid",
                             ![p].fields = FailingFields(call[p].row)]
    /\ pc' = [pc EXCEPT ![p] = "validated"]
    /\ UNCHANGED <<db, sess, req, st, out, nimports, import_batch_repo>>

CreateStep(p) ==
    \/ customer_get(p)
    \/ customer_create(p)
    \/ product_get(p)
    \/ product_create(p)
    \/ create(p)
    \/ create_transaction_end(p)

(***************************************************************************)
(* Specifications                                                          *)
(***************************************************************************)
Step(p) ==
    \/ create_batch(p)
    \/ parse_header(p)
    \/ parse_row(p)
    \/ update_processing(p)
    \/ customers_select(p)
    \/ customers_flush(p)
    \/ products_select(p)
    \/ products_flush(p)
    \/ create_bulk(p)
    \/ update_completed(p)
    \/ import_failed(p)
    \/ end_request(p)
    \/ close_request(p)

Next ==
    \E p \in Procs :
        \/ \E f \in Files : upload_transactions(p, f)
        \/ upload_again(p)
        \/ Step(p)

Spec == Init /\ [][Next]_vars

NextConc ==
    \E p \in Procs :
        \/ \E f \in ConcFiles : upload_transactions(p, f)
        \/ upload_again(p)
        \/ Step(p)

SpecConc == InitConc /\ [][NextConc]_vars

\* imports and direct single-create calls, one at a time, over one store
InitCreate == InitOver({1}, {TRUE})

NextCreate ==
    \E p \in Procs :
        \/ \E f \in ConcFiles : upload_transactions(p, f)
        \/ Step(p)
        \/ \E data \in Payloads : create_transaction(p, data)
        \/ CreateStep(p)

SpecCreate == InitCreate /\ [][NextCreate]_vars

\* report requests, one at a time, over a store that imports left behind
InitReport ==
    /\ import_batch_repo = TRUE
    /\ db \in {tables \in ReportStores : ReferencesHold(tables)}
    /\ sess = [p \in {1} |-> NewSession]
    /\ pc = [p \in {1} |-> "idle"]
    /\ req = [p \in {1} |-> NoRequest]
    /\ st = [p \in {1} |-> NoLocals]
    /\ out = [p \in {1} |-> NoOutput]
    /\ call = [p \in {1} |-> NoCall]
    /\ nimports = 0

NextReport ==
    \E p \in Procs :
        \/ \E kind \in {"customer_summary", "product_summary"} :
              \E id \in EntityIds : \E start_date \in Dates : \E end_date \in Dates :
                  get_summary(p, kind, id, start_date, end_date)
        \/ ReportStep(p)

SpecReport == InitReport /\ [][NextReport]_vars

\* listings over the tables some imports have left
InitList == InitReport

NextList ==
    \E p \in Procs :
        \/ \E customer_id \in Filters : \E product_id \in Filters :
              \E page_size \in 1..MaxPageSize :
                  list_transactions(p, customer_id, product_id, page_size)
        \/ ListStep(p)

SpecList == InitList /\ [][NextList]_vars

\* convert_to_pln and the customer summary on one stored transaction
InitConvert ==
    /\ import_batch_repo = TRUE
    /\ sess = [p \in {1} |-> NewSession]
    /\ pc = [p \in {1} |-> "convert"]
    /\ req = [p \in {1} |-> NoRequest]
    /\ st = [p \in {1} |-> NoLocals]
    /\ out = [p \in {1} |-> NoOutput]
    /\ nimports = 0
    /\ \E amount \in 1..MaxAmountCents : \E currency \in Currencies :
          /\ db = OnlyTransaction(amount, currency)
          /\ call = [p \in {1} |-> [op |-> "convert_to_pln", amount |-> amount,
                                   currency |-> currency, converted |-> None,
                                   summary |-> NoSummary]]

NextConvert == \E p \in Procs : convert(p) \/ summarise(p)

SpecConvert == InitConvert /\ [][NextConvert]_vars

\* row validation on its own: one row, validated once
InitValidate ==
    /\ import_batch_repo = TRUE
    /\ db = EmptyTables
    /\ sess = [p \in {1} |-> NewSession]
    /\ pc = [p \in {1} |-> "validate"]
    /\ req = [p \in {1} |-> NoRequest]
    /\ st = [p \in {1} |-> NoLocals]
    /\ out = [p \in {1} |-> NoOutput]
    /\ nimports = 0
    /\ \E r \in ValidationRows :
          call = [p \in {1} |-> [op |-> "validate", row |-> r, result |-> "none", fields |-> {}]]

NextValidate == \E p \in Procs : validate_row(p)

SpecValidate == InitValidate /\ [][NextValidate]_vars

(***************************************************************************)
(* Properties                                                              *)
(***************************************************************************)
Done(p) == pc[p] = "done"

FileRows(p) == req[p].file.rows

StoredIds(tables) == {t.transaction_id : t \in tables.transactions}

\* the rows stored by the current request of slot p
OwnRows(p) == {t \in db.transactions : t.src = p} \ req[p].pre.transactions

\* the exception came out of one of the flushes of _process_transactions
StorageRaised(p) == st[p].raised \in {"customers", "products", "create_bulk"}

BulkInsertRaised(p) == st[p].raised = "create_bulk"

\* row k of the file passed TransactionCSVRow and its id was not stored
\* when the request began
Passing(p, k) ==
    /\ RowValidates(FileRows(p)[k])
    /\ FileRows(p)[k].tid \notin StoredIds(req[p].pre)

ReportedRows(p) == {out[p].errors[i].row : i \in 1..Len(out[p].errors)}

\* C1: for a file with a valid header, when no flush of the batch raised,
\* every row that passes validation and whose id was not stored is persisted
\* by the call, and every other row is reported in the error list, whatever
\* the other rows of the file are.
C1_PassingRowsPersisted ==
    \A p \in Procs :
        (Done(p) /\ req[p].file.hdr = "ok" /\ ~StorageRaised(p)) =>
            \A k \in 1..Len(FileRows(p)) :
                IF Passing(p, k)
                THEN \E t \in OwnRows(p) : t.transaction_id = FileRows(p)[k].tid
                ELSE RowNumber(k) \in ReportedRows(p)

\* C2: when the bulk insert raised, after the call none of the rows of the
\* batch is stored: the stored transactions are those stored before the call.
C2_BulkFailureStoresNothing ==
    \A p \in Procs :
        (Done(p) /\ BulkInsertRaised(p)) =>
            /\ db.transactions = req[p].pre.transactions
            /\ OwnRows(p) = {}

C2_Witness ==
    \E p \in Procs :
        /\ Done(p)
        /\ BulkInsertRaised(p)
        /\ Len(st[p].valid) >= 2
        /\ \E k \in 1..Len(st[p].valid) :
              CreateBulkOutcome(req[p].pre.transactions, <<st[p].valid[k]>>) = "ok"

\* C3: when the bulk insert raised and the batch is tracked, the batch record
\* of the call ends up stored with status "failed" and the failure cause.
C3_FailedBatchRecorded ==
    \A p \in Procs :
        (Done(p) /\ req[p].tracked /\ BulkInsertRaised(p)) =>
            \E b \in db.batches :
                /\ b.batch_id = st[p].batch_id
                /\ b.status = "failed"
                /\ b.error_details.kind = "cause"

\* C4: a bulk insert that raised reaches the caller as an error (import_csv
\* raises, the endpoint answers with an error status), never as a response;
\* a returned response implies that the bulk insert did not raise.
C4_BulkFailureIsBatchError ==
    \A p \in Procs :
        /\ (pc[p] \in {"end", "done"} /\ BulkInsertRaised(p)) => out[p].kind = "error"
        /\ (Done(p) /\ BulkInsertRaised(p)) => out[p].http >= 400
        /\ out[p].kind = "response" => ~BulkInsertRaised(p)
        /\ (Done(p) /\ out[p].http = 200) => ~BulkInsertRaised(p)

C4_Witness ==
    \E p \in Procs :
        /\ Done(p)
        /\ BulkInsertRaised(p)
        /\ out[p].kind = "error"
        /\ out[p].http = 500

\* C5: for a decodable file with a valid header, a malformed row never makes
\* import_csv raise: the call returns a response in which each malformed row
\* has exactly one error entry.
C5_RowProblemsNeverRaise ==
    \A p \in Procs :
        (Done(p) /\ req[p].file.hdr = "ok" /\ ~StorageRaised(p)) =>
            /\ out[p].kind = "response"
            /\ \A k \in 1..Len(FileRows(p)) :
                  ~RowValidates(FileRows(p)[k]) =>
                      Cardinality({i \in 1..Len(out[p].errors) :
                                      out[p].errors[i].row = RowNumber(k)}) = 1

\* C6: for an empty file or a header that lacks a required name the call
\* returns exactly one error, with row number 0, processed_count 0, and
\* stores no transaction, customer or product, whatever rows follow.
C6_HeaderFailure ==
    \A p \in Procs :
        (Done(p) /\ req[p].file.hdr \in {"empty", "missing"}) =>
            /\ out[p].kind = "response"
            /\ out[p].error_count = 1
            /\ Len(out[p].errors) = 1
            /\ out[p].errors[1].row = 0
            /\ out[p].processed_count = 0
            /\ db.transactions = req[p].pre.transactions
            /\ db.customers = req[p].pre.customers
            /\ db.products = req[p].pre.products

C6_Witness ==
    \E p \in Procs :
        /\ Done(p)
        /\ req[p].file.hdr = "missing"
        /\ \E k \in 1..Len(FileRows(p)) : Passing(p, k)
        /\ out[p].kind = "response"

\* C7: a valid row whose transaction_id is already stored is reported with
\* field "transaction_id" and a message naming the id, is not inserted, and
\* the stored transaction stays as it was; importing a file again right after
\* its import returned leaves the store as it was and reports processed_count 0.
C7_DuplicateRejected ==
    \A p \in Procs :
        /\ (Done(p) /\ out[p].kind = "response" /\ req[p].file.hdr = "ok") =>
              \A k \in 1..Len(FileRows(p)) :
                  (RowValidates(FileRows(p)[k]) /\ FileRows(p)[k].tid \in StoredIds(req[p].pre)) =>
                      /\ \E i \in 1..Len(out[p].errors) :
                            /\ out[p].errors[i].row = RowNumber(k)
                            /\ out[p].errors[i].field = "transaction_id"
                            /\ out[p].errors[i].error =
                                  [kind |-> "exists", tid |-> FileRows(p)[k].tid]
                      /\ \A t \in OwnRows(p) : t.transaction_id # FileRows(p)[k].tid
        /\ Done(p) =>
              \A t \in req[p].pre.transactions :
                  /\ t \in db.transactions
                  /\ \A u \in db.transactions : u.transaction_id = t.transaction_id => u = t
        /\ (Done(p) /\ req[p].repeat) =>
              /\ out[p].kind = "response"
              /\ out[p].processed_count = 0
              /\ db.transactions = req[p].pre.transactions
              /\ db.customers = req[p].pre.customers
              /\ db.products = req[p].pre.products

C7_Witness ==
    \E p \in Procs :
        /\ Done(p)
        /\ req[p].repeat
        /\ req[p].pre.transactions # {}
        /\ \E i \in 1..Len(out[p].errors) : out[p].errors[i].field = "transaction_id"

AllBatches == db.batches \cup UNION {sess[q].batches : q \in Procs}

StatusRank(s) ==
    CASE s = "pending" -> 0
      [] s = "processing" -> 1
      [] OTHER -> 2

\* C8: in every step the status of an ImportBatch record stays or moves
\* forward along pending -> processing -> {completed, failed}, and a record
\* in completed or failed keeps its status.
C8_StatusForward ==
    [][\A b \in AllBatches : \A c \in AllBatches' :
          c.batch_id = b.batch_id =>
              /\ StatusRank(c.status) >= StatusRank(b.status)
              /\ b.status \in {"completed", "failed"} => c.status = b.status]_vars

C8_Witness ==
    /\ \E b \in db.batches : b.status = "completed"
    /\ \E p \in Procs : \E b \in sess[p].batches : b.status = "failed"

\* the transaction ids for which both calls passed the existence check
SharedValidIds(p, q) ==
    {st[p].valid[i].tid : i \in 1..Len(st[p].valid)}
        \cap {st[q].valid[i].tid : i \in 1..Len(st[q].valid)}

\* a customer id that the surviving rows of both calls reference and that
\* was stored when neither began
SharedNewCustomer(p, q) ==
    (customer_ids(st[p].valid) \cap customer_ids(st[q].valid))
        \ (req[p].pre.customers \cup req[q].pre.customers)

\* C9: two overlapping imports whose surviving rows reference the same new
\* customer (and no common transaction id) both return a response, and the
\* customer is stored.
C9_SharedCustomerBothSucceed ==
    \A p \in Procs : \A q \in Procs \ {p} :
        (/\ Done(p) /\ Done(q)
         /\ SharedNewCustomer(p, q) # {}
         /\ SharedValidIds(p, q) = {}
         /\ st[p].raised \in {"none", "customers"}
         /\ st[q].raised \in {"none", "customers"}) =>
            /\ out[p].kind = "response"
            /\ out[q].kind = "response"
            /\ SharedNewCustomer(p, q) \subseteq db.customers

\* C10: at most one transaction row per id is ever stored; of two imports
\* that both passed the existence check for one id at most one returns a
\* response, and an import whose bulk insert raised ends as an error with
\* none of its rows stored.
C10_OneRowPerId ==
    /\ \A t \in db.transactions : \A u \in db.transactions :
          t.transaction_id = u.transaction_id => t = u
    /\ \A p \in Procs : \A q \in Procs \ {p} :
          (Done(p) /\ Done(q) /\ SharedValidIds(p, q) # {}) =>
              ~(out[p].kind = "response" /\ out[q].kind = "response")
    /\ \A p \in Procs :
          (Done(p) /\ BulkInsertRaised(p)) =>
              /\ out[p].kind = "error"
              /\ out[p].http >= 400
              /\ OwnRows(p) = {}

C10_Witness ==
    \E p \in Procs : \E q \in Procs \ {p} :
        /\ Done(p) /\ Done(q)
        /\ SharedValidIds(p, q) # {}
        /\ out[p].kind = "response"
        /\ \E t \in OwnRows(p) : t.transaction_id \in SharedValidIds(p, q)
        /\ BulkInsertRaised(q)
        /\ st[q].exc = "PendingRollbackError"

\* every row of the file passes validation, no two rows share an id, no id
\* was stored when the request began and every amount fits the column
CleanFile(p) ==
    /\ FileRows(p) # <<>>
    /\ \A k \in 1..Len(FileRows(p)) : Passing(p, k)
    /\ \A i, j \in 1..Len(FileRows(p)) : i # j => FileRows(p)[i].tid # FileRows(p)[j].tid
    /\ ~NumericOverflow(FileRows(p))

\* C11: no row is rejected for an unknown customer or product.  Every stored
\* transaction references a stored customer and a stored product; an import
\* of a file whose rows are all valid and new returns a response with every
\* row stored and none reported, whether or not its customers and products
\* were known; a create_transaction call with a new id returns and stores
\* the transaction.
C11_ReferencesMaterialized ==
    /\ \A t \in db.transactions :
          t.customer_id \in db.customers /\ t.product_id \in db.products
    /\ \A p \in Procs :
          (Done(p) /\ req[p].file.hdr = "ok" /\ CleanFile(p)) =>
              /\ out[p].kind = "response"
              /\ out[p].errors = <<>>
              /\ \A k \in 1..Len(FileRows(p)) :
                    \E t \in OwnRows(p) :
                        /\ t.transaction_id = FileRows(p)[k].tid
                        /\ t.customer_id = FileRows(p)[k].cid
                        /\ t.product_id = FileRows(p)[k].pid
    /\ \A p \in Procs :
          (/\ Done(p) /\ call[p].op = "create_transaction"
           /\ call[p].data.tid \notin StoredIds(call[p].pre)
           /\ ~NumericOverflow(<<call[p].data>>)) =>
              /\ call[p].result = "returned"
              /\ \E t \in db.transactions :
                    /\ t.transaction_id = call[p].data.tid
                    /\ t.customer_id = call[p].data.cid
                    /\ t.product_id = call[p].data.pid

C11_Witness ==
    \E p \in Procs :
        /\ Done(p)
        /\ out[p].kind = "response"
        /\ req[p].pre.transactions # {}
        /\ \E t \in OwnRows(p) :
              t.customer_id \notin req[p].pre.customers
                  /\ t.product_id \in req[p].pre.products

\* C12: every stored transaction has amount > 0 and quantity > 0.
C12_PositiveAmountAndQuantity ==
    \A t \in db.transactions : t.amount > 0 /\ t.quantity > 0

Validated(p) == pc[p] = "validated"

\* C13: validation enforces its bounds exactly.  Among rows whose other
\* fields are valid, amount 0.00 is rejected and 0.01 accepted, quantity 0
\* is rejected and 1 accepted; with at most two fractional digits a row is
\* accepted exactly when its amount and its quantity are greater than zero.
C13_BoundsExact ==
    \A p \in Procs :
        Validated(p) =>
            LET r == call[p].row
                accepted == call[p].result = "valid"
            IN  /\ (r.amt = Amt(0, 0, 2) /\ r.qty = 1) => ~accepted
                /\ (r.amt = Amt(0, 1, 2) /\ r.qty = 1) => accepted
                /\ (r.amt = Amt(10, 0, 2) /\ r.qty = 0) => ~accepted
                /\ (r.amt = Amt(10, 0, 2) /\ r.qty = 1) => accepted
                /\ r.amt.nd <= 2 => (accepted <=> (Cents(r.amt) >= 1 /\ r.qty >= 1))
                /\ (r.amt.nd <= 2 /\ Cents(r.amt) = 0) => "amount" \in call[p].fields
                /\ r.qty = 0 => "quantity" \in call[p].fields

C13_Witness ==
    \E p \in Procs :
        /\ Validated(p)
        /\ call[p].row.amt = Amt(0, 1, 2)
        /\ call[p].row.qty = 1
        /\ call[p].result = "valid"

\* C14: an amount written with three or more fractional digits is rejected
\* on the amount field, also when the extra digits are zeros (10.100); an
\* amount of at most two fractional digits and greater than zero is accepted.
C14_ThreeDecimalsRejected ==
    \A p \in Procs :
        Validated(p) =>
            LET r == call[p].row
            IN  /\ r.amt.nd >= 3 =>
                      /\ call[p].result = "invalid"
                      /\ "amount" \in call[p].fields
                /\ (r.amt.nd <= 2 /\ Cents(r.amt) > 0 /\ r.qty > 0) =>
                      call[p].result = "valid"

C14_Witness ==
    \E p \in Procs :
        /\ Validated(p)
        /\ call[p].row.amt = Amt(10, 100, 3)
        /\ call[p].row.qty = 1
        /\ call[p].result = "invalid"
        /\ call[p].fields = {"amount"}

\* C15: in a returned response every row error carries the number k + 1 of
\* the k-th data row it is about (the first data row is row 2): each error
\* points at a row that validation or the existence check rejected, each
\* row that fails validation is reported under its own number, and the
\* numbers of later rows do not depend on what happened to earlier rows.
C15_RowNumbers ==
    \A p \in Procs :
        (Done(p) /\ out[p].kind = "response" /\ req[p].file.hdr = "ok") =>
            /\ \A i \in 1..Len(out[p].errors) :
                  LET e == out[p].errors[i]
                      k == e.row - 1
                  IN  /\ e.row >= 2
                      /\ k \in 1..Len(FileRows(p))
                      /\ IF e.error.kind = "exists"
                         THEN RowValidates(FileRows(p)[k]) /\ e.error.tid = FileRows(p)[k].tid
                         ELSE ~RowValidates(FileRows(p)[k])
            /\ \A k \in 1..Len(FileRows(p)) :
                  ~RowValidates(FileRows(p)[k]) =>
                      \E i \in 1..Len(out[p].errors) :
                          out[p].errors[i].row = k + 1 /\ out[p].errors[i].error.kind = "validation"
            /\ \A i, j \in 1..Len(out[p].errors) :
                  i < j => out[p].errors[i].row < out[p].errors[j].row

C15_Witness ==
    \E p \in Procs :
        /\ Done(p)
        /\ out[p].kind = "response"
        /\ Len(FileRows(p)) = 2
        /\ ~RowValidates(FileRows(p)[1])
        /\ RowValidates(FileRows(p)[2])
        /\ Len(out[p].errors) = 2
        /\ out[p].errors[1].row = 2
        /\ out[p].errors[2].row = 3
        /\ out[p].errors[2].error.kind = "exists"

\* C16: the error reported for a row that fails validation in exactly one
\* field names that field.
C16_ErrorNamesField ==
    \A p \in Procs :
        (Done(p) /\ out[p].kind = "response" /\ req[p].file.hdr = "ok") =>
            \A k \in 1..Len(FileRows(p)) :
                (Cardinality(FailingFields(FileRows(p)[k])) = 1) =>
                    \A i \in 1..Len(out[p].errors) :
                        out[p].errors[i].row = k + 1 =>
                            out[p].errors[i].field \in FailingFields(FileRows(p)[k])

IsReport(p) == call[p].op \in {"customer_summary", "product_summary"}

Answered(p) == Done(p) /\ IsReport(p) /\ call[p].status = 200

\* the stored transactions of the requested customer or product
OfEntity(p) ==
    {t \in db.transactions :
        IF call[p].op = "customer_summary" THEN t.customer_id = call[p].id
        ELSE t.product_id = call[p].id}

\* those of them stamped from start_date to end_date, both included
Window(p) ==
    {t \in OfEntity(p) :
        /\ call[p].start_date = None \/ call[p].start_date <= t.timestamp
        /\ call[p].end_date = None \/ t.timestamp <= call[p].end_date}

\* the converted total of the answer, in hundredths
Total(p) ==
    IF call[p].op = "customer_summary" THEN call[p].summary.total_amount_pln
    ELSE call[p].summary.total_revenue_pln

\* C17: the total of a summary is the sum of amount times rate over the
\* filtered transactions, rounded once after summing to two decimal places,
\* halves up; {100.00 PLN, 10.00 EUR} gives 143.00.
C17_ConvertedTotal ==
    \A p \in Procs :
        Answered(p) =>
            LET exact == SumConverted(Window(p))
            IN  /\ Total(p) * 10 - exact \in -4..5
                /\ exact % 10 = 0 => Total(p) * 10 = exact
                /\ Window(p) = {StoredA, StoredB} => Total(p) = 14300

C17_Witness ==
    \E p \in Procs :
        /\ Answered(p)
        /\ Cardinality(Window(p)) >= 2
        /\ \E t, u \in Window(p) : t.currency # u.currency
        /\ SumConverted(Window(p)) % 10 = 5

\* C18: a report request that passes the date check is answered NotFound
\* exactly when no entity row exists for the id; for an existing entity with
\* no transaction in the window the answer is a summary of zeros (and no
\* last transaction date).
C18_NotFoundIffNoEntity ==
    \A p \in Procs :
        (Done(p) /\ IsReport(p) /\ call[p].status # 400) =>
            LET known == IF call[p].op = "customer_summary" THEN call[p].id \in db.customers
                         ELSE call[p].id \in db.products
            IN  /\ call[p].status \in {200, 404}
                /\ call[p].status = 404 <=> ~known
                /\ (known /\ Window(p) = {}) =>
                      /\ call[p].status = 200
                      /\ Total(p) = 0
                      /\ IF call[p].op = "customer_summary"
                         THEN /\ call[p].summary.unique_products_count = 0
                              /\ call[p].summary.last_transaction_date = None
                         ELSE /\ call[p].summary.unique_customers_count = 0
                              /\ call[p].summary.total_quantity_sold = 0

C18_Witness ==
    \E p \in Procs :
        /\ Answered(p)
        /\ call[p].op = "product_summary"
        /\ OfEntity(p) # {}
        /\ Window(p) = {}
        /\ call[p].summary.total_quantity_sold = 0

\* C19: a summary aggregates exactly the transactions of the requested
\* entity with start_date <= timestamp <= end_date, a transaction stamped
\* at either bound included, an omitted bound not restricting.
C19_InclusiveWindow ==
    \A p \in Procs :
        Answered(p) =>
            /\ call[p].matched = Window(p)
            /\ IF call[p].op = "customer_summary"
               THEN /\ call[p].summary.unique_products_count =
                          Cardinality({t.product_id : t \in Window(p)})
                    /\ \A t \in Window(p) : t.timestamp <= call[p].summary.last_transaction_date
               ELSE /\ call[p].summary.unique_customers_count =
                          Cardinality({t.customer_id : t \in Window(p)})
                    /\ call[p].summary.total_quantity_sold = SumQuantity(Window(p))
            /\ (call[p].start_date = None /\ call[p].end_date = None) =>
                  call[p].matched = OfEntity(p)

C19_Witness ==
    \E p \in Procs :
        /\ Answered(p)
        /\ call[p].start_date # None
        /\ call[p].end_date # None
        /\ call[p].start_date < call[p].end_date
        /\ \E t \in call[p].matched : t.timestamp = call[p].start_date
        /\ \E t \in call[p].matched : t.timestamp = call[p].end_date
        /\ call[p].matched # OfEntity(p)

\* C20: a report request with both bounds given and start_date after
\* end_date is refused as a caller error before the report service or any
\* query runs; a request with start_date equal to end_date is not refused.
C20_DateRangeRejected ==
    \A p \in Procs :
        IsReport(p) =>
            LET both == call[p].start_date # None /\ call[p].end_date # None
                after == both /\ call[p].start_date > call[p].end_date
            IN  /\ after => (~call[p].invoked /\ ~call[p].queried)
                /\ (Done(p) /\ after) => call[p].status = 400
                /\ (Done(p) /\ ~after) => call[p].status # 400
                /\ (Done(p) /\ both /\ call[p].start_date = call[p].end_date) =>
                      call[p].status \in {200, 404}

C20_Witness ==
    \E p \in Procs :
        /\ Done(p)
        /\ IsReport(p)
        /\ call[p].status = 400
        /\ ~call[p].invoked
        /\ call[p].id \in db.customers \cap db.products

\* the quantity of a stored transaction if it is in the window, else 0
QuantityIn(p, t) == IF t \in Window(p) THEN t.quantity ELSE 0

\* C21: unique_products_count (unique_customers_count) is the number of
\* distinct product (customer) ids among the filtered transactions, several
\* transactions of one product (customer) counting once, and
\* total_quantity_sold is the sum of their quantities.
C21_DistinctCounts ==
    \A p \in Procs :
        Answered(p) =>
            IF call[p].op = "customer_summary"
            THEN call[p].summary.unique_products_count =
                     Cardinality({i \in EntityIds : \E t \in Window(p) : t.product_id = i})
            ELSE /\ call[p].summary.unique_customers_count =
                        Cardinality({i \in EntityIds : \E t \in Window(p) : t.customer_id = i})
                 /\ call[p].summary.total_quantity_sold =
                        QuantityIn(p, StoredA) + QuantityIn(p, StoredB)
                            + QuantityIn(p, StoredC) + QuantityIn(p, StoredD)

C21_Witness ==
    \E p \in Procs :
        /\ Answered(p)
        /\ call[p].op = "customer_summary"
        /\ Cardinality(Window(p)) = 3
        /\ call[p].summary.unique_products_count = 2

\* C22: a report call is read-only and idempotent.  While it runs and when
\* it has ended the stored transactions, customers, products and batches are
\* those stored when it began and its session holds no pending row (the
\* queried entity is not created); the same request made again on the
\* unchanged store gets the same answer.
C22_ReportsReadOnly ==
    \A p \in Procs :
        IsReport(p) =>
            /\ db = call[p].pre
            /\ sess[p] = NewSession
            /\ (Done(p) /\ call[p].prev # NoPrevious) =>
                  /\ call[p].status = call[p].prev.status
                  /\ call[p].summary = call[p].prev.summary

C22_Witness ==
    \E p \in Procs :
        /\ Done(p)
        /\ IsReport(p)
        /\ call[p].prev.status = 404
        /\ call[p].status = 404
        /\ db.transactions # {}

\* the stored batch record of the request of slot p
OwnBatch(p) == {b \in db.batches : b.batch_id = st[p].batch_id}

\* C23: the completed batch record of an import of a file with a valid
\* header has total_rows equal to the number of data rows of the file and
\* to processed_rows + error_rows.
C23_TotalRowsRecorded ==
    \A p \in Procs :
        (Done(p) /\ req[p].tracked /\ req[p].file.hdr = "ok") =>
            \A b \in OwnBatch(p) :
                b.status = "completed" =>
                    /\ b.total_rows = Len(FileRows(p))
                    /\ b.total_rows = b.processed_rows + b.error_rows

\* rows i < j of the file are valid and carry the same id, which was not
\* stored when the request began
RepeatedInFile(p, i, j) ==
    /\ i < j
    /\ Passing(p, i)
    /\ Passing(p, j)
    /\ FileRows(p)[i].tid = FileRows(p)[j].tid

\* C24: the rows handed to the bulk insert have pairwise distinct ids; when
\* two valid rows of a file carry the same new id and every row of the file
\* is well-formed and fits the column, the call returns a response that
\* reports the later row as a duplicate and stores the earlier one.
C24_SurvivorsDistinct ==
    \A p \in Procs :
        /\ \A i, j \in 1..Len(st[p].valid) :
              i # j => st[p].valid[i].tid # st[p].valid[j].tid
        /\ (/\ Done(p) /\ req[p].file.hdr = "ok"
            /\ \A k \in 1..Len(FileRows(p)) : RawDataBuilds(FileRows(p)[k])
            /\ ~NumericOverflow(FileRows(p))) =>
              \A i, j \in 1..Len(FileRows(p)) :
                  RepeatedInFile(p, i, j) =>
                      /\ out[p].kind = "response"
                      /\ j + 1 \in ReportedRows(p)
                      /\ \E t \in OwnRows(p) : t.transaction_id = FileRows(p)[i].tid

\* C25: when an import of a file with a valid header returns, every data
\* row is counted once: processed_count + error_count is the number of data
\* rows, error_count is the length of the error list, and processed_count is
\* the number of transactions the call added to the store.
C25_RowsAccounted ==
    \A p \in Procs :
        (Done(p) /\ out[p].kind = "response" /\ req[p].file.hdr = "ok") =>
            /\ out[p].processed_count + out[p].error_count = Len(FileRows(p))
            /\ out[p].error_count = Len(out[p].errors)
            /\ out[p].processed_count = Cardinality(OwnRows(p))
            /\ out[p].processed_count = Cardinality(db.transactions) - Cardinality(req[p].pre.transactions)

C25_Witness ==
    \E p \in Procs :
        /\ Done(p)
        /\ out[p].kind = "response"
        /\ req[p].pre.transactions # {}
        /\ out[p].processed_count = 1
        /\ out[p].error_count = 1

\* the session of slot p has written a customer, product or transaction
HasWritten(p) ==
    sess[p].customers # {} \/ sess[p].products # {} \/ sess[p].transactions # {}

\* C26: the steps of one import are ordered.  Nothing is written to
\* customers, products or transactions before every data row has been
\* validated and existence-checked; transactions are inserted only after
\* their customers and products are in place; the batch is marked
\* "completed" only after the bulk insert has returned.
C26_StepsOrdered ==
    \A p \in Procs :
        /\ pc[p] \in {"create", "header", "rows", "processing"} => ~HasWritten(p)
        /\ HasWritten(p) =>
              /\ st[p].idx = Len(FileRows(p)) + 1
              /\ st[p].total_rows = Len(FileRows(p))
        /\ pc[p] = "bulk" =>
              /\ sess[p].transactions = {}
              /\ customer_ids(st[p].valid) \subseteq VisibleCustomers(p)
              /\ product_ids(st[p].valid) \subseteq VisibleProducts(p)
        /\ sess[p].transactions # {} =>
              \A t \in sess[p].transactions :
                  t.customer_id \in VisibleCustomers(p) /\ t.product_id \in VisibleProducts(p)
        /\ (\E b \in sess[p].batches : b.status = "completed") =>
              /\ pc[p] = "end"
              /\ \A i \in 1..Len(st[p].valid) :
                    \E t \in sess[p].transactions : t.transaction_id = st[p].valid[i].tid

C26_Witness ==
    \E p \in Procs :
        /\ pc[p] = "end"
        /\ \E b \in sess[p].batches : b.status = "completed"
        /\ sess[p].transactions # {}
        /\ sess[p].customers # {}
        /\ sess[p].products # {}
        /\ st[p].errors # <<>>

\* row k of the file is refused: a field fails validation, the line has
\* not the seven fields, or its id was stored when the request began
Rejected(p, k) ==
    \/ FailingFields(FileRows(p)[k]) # {}
    \/ FileRows(p)[k].nf # HeaderFields
    \/ FileRows(p)[k].tid \in StoredIds(req[p].pre)

\* C27: entities are created only for surviving rows.  After an import the
\* customers and products that were not stored before are referenced by a
\* row of the file that was not refused, and an import whose rows are all
\* refused leaves transactions, customers and products as they were.
C27_EntitiesFromSurvivors ==
    \A p \in Procs :
        (Done(p) /\ req[p].file.hdr # "none") =>
            LET kept == {k \in 1..Len(FileRows(p)) : ~Rejected(p, k)}
            IN  /\ db.customers \ req[p].pre.customers \subseteq {FileRows(p)[k].cid : k \in kept}
                /\ db.products \ req[p].pre.products \subseteq {FileRows(p)[k].pid : k \in kept}
                /\ kept = {} =>
                      /\ db.transactions = req[p].pre.transactions
                      /\ db.customers = req[p].pre.customers
                      /\ db.products = req[p].pre.products

C27_Witness ==
    \E p \in Procs :
        /\ Done(p)
        /\ out[p].kind = "response"
        /\ db.customers # req[p].pre.customers
        /\ \E k \in 1..Len(FileRows(p)) :
              Rejected(p, k) /\ FileRows(p)[k].cid \notin db.customers

\* C28: after a tracked import has ended, by returning or by raising, its
\* batch record is stored in a terminal status, and no stored batch record
\* of an ended import is "pending" or "processing".
C28_BatchEndsTerminal ==
    \A p \in Procs :
        (Done(p) /\ req[p].tracked) =>
            /\ OwnBatch(p) # {}
            /\ \A b \in OwnBatch(p) : b.status \in {"completed", "failed"}

\* the stored transactions a listing selects
Matching(p) ==
    {t \in db.transactions : Matches(t, call[p].customer_id, call[p].product_id)}

\* ceil(n / d): the least k with k * d >= n
CeilDiv(n, d) == CHOOSE k \in 0..n : k * d >= n /\ \A j \in 0..n : j * d >= n => k <= j

Listed(p) == Done(p) /\ call[p].op = "list_transactions"

\* the responses to pages 1..page of the listing of slot p
PagesSoFar(p) == Append(call[p].pages, call[p].response)

\* C29: every page answered carries total_pages = ceil(total / page_size),
\* has_next exactly when page < total_pages, has_previous exactly when
\* page > 1, and items newest first; once pages 1..total_pages+1 have been
\* asked over the unchanged store, each matching transaction is on exactly
\* one position of pages 1..total_pages, and the page after them is empty.
C29_PagesPartitionMatches ==
    \A p \in Procs :
        Listed(p) =>
            LET r == call[p].response
                tp == CeilDiv(Cardinality(Matching(p)), call[p].page_size)
                all == PagesSoFar(p)
            IN  /\ r.total = Cardinality(Matching(p))
                /\ r.total_pages = tp
                /\ r.has_next <=> (call[p].page < tp)
                /\ r.has_previous <=> (call[p].page > 1)
                /\ \A i, j \in DOMAIN r.items :
                      i < j => r.items[i].timestamp >= r.items[j].timestamp
                /\ call[p].page = tp + 1 =>
                      /\ r.items = <<>>
                      /\ \A t \in Matching(p) :
                            Cardinality({<<n, k>> \in (1..tp) \X (1..call[p].page_size) :
                                           k \in DOMAIN all[n].items /\ all[n].items[k] = t}) = 1

\* C30: for a customer whose only transaction has a given 2-decimal amount
\* and currency, convert_to_pln of that amount and currency equals the
\* total_amount_pln of the customer's summary.
C30_ConvertAgreesWithSummary ==
    \A p \in Procs :
        (Done(p) /\ call[p].op = "convert_to_pln") =>
            call[p].converted = call[p].summary.total_amount_pln

====
